---- MODULE Spec2Model ----
(***************************************************************************)
(* LapVision: the lap-timing session engine.                               *)
(*                                                                         *)
(* One LapCounter object (src/backend/lap_counter_core.py) and the Flask   *)
(* handlers that drive it (src/backend/app.py).  Numbers the code holds as *)
(* floats (fps, min_lap_time, lap times) are exact rationals [n, d] with   *)
(* d > 0.  A decoded frame is represented by the stream position it was    *)
(* read from, so that a buffer holding another frame's pixels is visible.  *)
(***************************************************************************)
EXTENDS Integers, Sequences, FiniteSets, TLC

VARIABLES
    fps,                \* self.fps            (rational, > 0)
    total_frames,       \* self.total_frames   (> 0)
    min_lap_time,       \* self.min_lap_time   (rational, as given to /api/init)
    ref_frame_idx,      \* self.ref_frame_idx  (None or Some(i))
    ref_feature,        \* self.ref_feature    (None or Some(embedding))
    lap_times,          \* self.lap_times
    lap_frame_indices,  \* self.lap_frame_indices
    frame_cache,        \* self.frame_cache    (frame index -> pixels)
    last_frame_idx,     \* self.last_frame_idx
    cap_pos,            \* decode cursor of self.cap
    cap,                \* self.cap           (Some(handle), None once released)
    video_lock,         \* self.video_lock    (None or Some(thread holding it))
    threads,            \* the calls in progress, one record per worker thread
    stream,             \* how the opened video file seeks and decodes
    calls,              \* number of handler calls served
    resp,               \* the response of the last handler call
    frame_request_count \* app.py's global count of frame requests in progress

vars == <<fps, total_frames, min_lap_time, ref_frame_idx, ref_feature,
          lap_times, lap_frame_indices, frame_cache, last_frame_idx,
          cap_pos, cap, video_lock, threads, stream, calls, resp,
          frame_request_count>>

-----------------------------------------------------------------------------
(* Optional values and rationals *)

None == <<>>

Some(x) == <<x>>

Val(o) == o[1]

Rat(n, d) == [n |-> n, d |-> d]

\* Python int(): truncation toward zero of n/d, d > 0
Trunc(n, d) == IF n >= 0 THEN n \div d ELSE -((-n) \div d)

\* ceil(n/d), d > 0
Ceil(n, d) == -((-n) \div d)

\* a < b for rationals with positive denominators
RatLess(a, b) == a.n * b.d < b.n * a.d

MinOf(S) == CHOOSE x \in S : \A y \in S : x <= y

Abs(x) == IF x < 0 THEN -x ELSE x

-----------------------------------------------------------------------------
(* Program constants *)

CacheLimit == 100

SmallFrameLimit == 200

SafeBack == 50

CacheStride == 10

TopK == 5

SampleRateDen == 10

(* Bounds of the model *)

MaxLaps == 2

\* handler calls served in one session
MaxCalls == 4

\* how far from its target an inaccurate seek lands
SeekError == 3

\* the embedding oracle sees the same scene again every ScenePeriod frames
ScenePeriod == 60

\* worker threads serving calls on one session at the same time
NumThreads == 2

-----------------------------------------------------------------------------
(* The session configurations /api/init can create: fps and total_frames   *)
(* are validated > 0 by __init__, min_lap_time is taken as given.          *)

Config(fps_n, fps_d, total, min_n) ==
    [fps |-> Rat(fps_n, fps_d), total_frames |-> total, min_lap_time |-> Rat(min_n, 1)]

(* How a video file behaves under cv2.VideoCapture: a direct seek or an    *)
(* anchor seek may land SeekError frames early (the reported position      *)
(* shows it), and some frames may fail to decode.                          *)

CorruptFrames == {63, 120}

GoodStream == [directBad |-> FALSE, anchorBad |-> FALSE, unreadable |-> {}]

BadSeekStream == [GoodStream EXCEPT !.directBad = TRUE, !.anchorBad = TRUE]

CorruptStream == [GoodStream EXCEPT !.unreadable = CorruptFrames]

\* only the seek to the requested index is inexact, and some frames fail to decode
RevealedSeekStream == [GoodStream EXCEPT !.directBad = TRUE, !.unreadable = CorruptFrames]

\* the videos a session is opened on
Videos ==
    { [cfg |-> Config(30, 1, 150, 2),       stream |-> GoodStream],
      [cfg |-> Config(30, 1, 150, 2),       stream |-> BadSeekStream],
      [cfg |-> Config(30, 1, 150, 2),       stream |-> CorruptStream],
      [cfg |-> Config(2997, 100, 150, 2),   stream |-> GoodStream],
      [cfg |-> Config(5, 1, 150, 2),        stream |-> GoodStream],
      [cfg |-> Config(30, 1, 150, 0),       stream |-> GoodStream] }

\* what the stream and the embedding model do during one call
Env(embedFails) ==
    [directBad |-> stream.directBad, anchorBad |-> stream.anchorBad,
     unreadable |-> stream.unreadable, embedFails |-> embedFails]

Envs == {Env(b) : b \in BOOLEAN}

\* frame indices asked of get_frame, inside and outside [0, total_frames)
FrameInputs == {-1, 0, 120, 250, 251, 260}

\* how many frames a caller has scanned forward from frame 0 beforehand
WarmScans == {0, 99, 100}

\* frame indices the worker threads ask for
ThreadInputs == {0, 110, 120}

\* forward scans before the worker threads start
ThreadWarmScans == {0, 99}

\* what a caller writes over the buffer it was handed
Scribble == -7

\* frame indices the operator marks as the reference
RefInputs == {0, 89, 150}

\* frame indices the operator confirms as a lap end
LapInputs == {59, 60, 120, 126, 150}

\* search_range values (seconds) the operator sends
RangeInputs == {0, 1}

\* candidate lists given to find_top_k_similar_frames: out of order, with
\* frames that may not decode, an index past the end, and equal scores
CandidateLists ==
    { <<62, 58, 120, 60, 150, 59, 61>>,
      <<57, 63, 3, 117, 123, 0>>,
      <<120, 63>>,
      <<>> }

\* k given to find_top_k_similar_frames
Ks == {1, 3, 5}

-----------------------------------------------------------------------------
(* The LapCounter object as one record *)

Self ==
    [fps |-> fps, total_frames |-> total_frames, min_lap_time |-> min_lap_time,
     ref_frame_idx |-> ref_frame_idx, ref_feature |-> ref_feature,
     lap_times |-> lap_times, lap_frame_indices |-> lap_frame_indices,
     frame_cache |-> frame_cache, last_frame_idx |-> last_frame_idx,
     cap_pos |-> cap_pos, cap |-> cap]

\* LapCounter.__init__
NewCounter(cfg) ==
    [fps |-> cfg.fps, total_frames |-> cfg.total_frames,
     min_lap_time |-> cfg.min_lap_time,
     ref_frame_idx |-> None, ref_feature |-> None,
     lap_times |-> <<>>, lap_frame_indices |-> <<>>,
     frame_cache |-> <<>>, last_frame_idx |-> -1, cap_pos |-> 0,
     cap |-> Some("VideoCapture")]

-----------------------------------------------------------------------------
(* The video stream (cv2.VideoCapture) *)

\* cap.read() at position p succeeds
Readable(self, p, env) ==
    /\ 0 <= p
    /\ p < self.total_frames
    /\ p \notin env.unreadable

\* cap.set(CAP_PROP_POS_FRAMES, target): where the cursor lands
Land(target, bad) == IF bad THEN target - SeekError ELSE target

\* `count` reads in a row from position p: how many succeed before the first failure
ReadRun(self, p, count, env) ==
    LET fails == {k \in 0..(count - 1) : ~Readable(self, p + k, env)}
    IN  IF fails = {} THEN count ELSE MinOf(fails)

\* the insert without the size check
CachePut_NoLimit(cache, k, v) == (k :> v) @@ cache

\* if len(self.frame_cache) < 100: self.frame_cache[k] = v
CachePut(cache, k, v) ==
    IF Cardinality(DOMAIN cache) < CacheLimit THEN (k :> v) @@ cache ELSE cache

\* the frames 0, 10, 20, ... below upto that the walk from frame 0 caches
RECURSIVE CacheStrided(_, _, _)
CacheStrided(cache, i, upto) ==
    IF i >= upto THEN cache
    ELSE CacheStrided(CachePut(cache, i, i), i + CacheStride, upto)

\* what get_frame hands back: a fresh buffer holding frame, or None
Returned(frame, self) ==
    [raised |-> FALSE, shared |-> FALSE, frame |-> frame, self |-> self]

\* self.cap is None: self.cap.read() / self.cap.set() raise AttributeError
RaisedIn(self) ==
    [raised |-> TRUE, shared |-> FALSE, frame |-> None, self |-> self]

\* get_frame, strategy 3 for frame_idx < 200: walk from frame 0
WalkFromStart(self, frame_idx, env) ==
    LET count == IF frame_idx >= 0 THEN frame_idx + 1 ELSE 0
        ok    == ReadRun(self, 0, count, env)
        seen  == IF ok < frame_idx THEN ok ELSE frame_idx
        c1    == CacheStrided(self.frame_cache, 0, seen)
    IN  IF count > 0 /\ ok = count
        THEN Returned(Some(frame_idx),
                 [self EXCEPT !.frame_cache = CachePut(c1, frame_idx, frame_idx),
                              !.last_frame_idx = frame_idx,
                              !.cap_pos = frame_idx + 1])
        ELSE Returned(None,
                 [self EXCEPT !.frame_cache = c1,
                              !.last_frame_idx = -1,
                              !.cap_pos = ok])

\* get_frame, strategy 3 for frame_idx >= 200: walk from 50 frames earlier
WalkFromAnchor(self, frame_idx, env) ==
    LET safe_start == IF frame_idx - SafeBack > 0 THEN frame_idx - SafeBack ELSE 0
        p     == Land(safe_start, env.anchorBad)
        count == frame_idx - safe_start + 1
        ok    == ReadRun(self, p, count, env)
        pix   == p + count - 1
    IN  IF ok = count
        THEN Returned(Some(pix),
                 [self EXCEPT !.frame_cache = CachePut(@, frame_idx, pix),
                              !.last_frame_idx = frame_idx,
                              !.cap_pos = p + count])
        ELSE Returned(None, [self EXCEPT !.cap_pos = p + ok])

\* get_frame, strategies 2-3: seek to frame_idx, check the reported position
SeekAndRead(self, frame_idx, env) ==
    LET actual_pos == Land(frame_idx, env.directBad)
    IN  IF actual_pos # frame_idx \/ actual_pos < 0
        THEN IF frame_idx < SmallFrameLimit
             THEN WalkFromStart(self, frame_idx, env)
             ELSE WalkFromAnchor(self, frame_idx, env)
        ELSE IF Readable(self, actual_pos, env)
             THEN Returned(Some(actual_pos),
                      [self EXCEPT !.frame_cache = CachePut(@, frame_idx, actual_pos),
                                   !.last_frame_idx = frame_idx,
                                   !.cap_pos = actual_pos + 1])
             ELSE Returned(None, [self EXCEPT !.cap_pos = actual_pos])

\* get_frame inside `with self.video_lock`: strategies 1-3
Decode(self, frame_idx, env) ==
    IF self.cap = None
    THEN RaisedIn(self)
    ELSE IF frame_idx = self.last_frame_idx + 1 /\ Readable(self, self.cap_pos, env)
         THEN Returned(Some(self.cap_pos),
                  [self EXCEPT !.frame_cache = CachePut(@, frame_idx, self.cap_pos),
                               !.last_frame_idx = frame_idx,
                               !.cap_pos = self.cap_pos + 1])
         ELSE SeekAndRead(self, frame_idx, env)

\* get_frame handing out the cached buffer itself on a cache hit
get_frame_NoCopy(self, frame_idx, env) ==
    IF frame_idx \in DOMAIN self.frame_cache
    THEN [Returned(Some(self.frame_cache[frame_idx]), self) EXCEPT !.shared = TRUE]
    ELSE Decode(self, frame_idx, env)

\* LapCounter.get_frame: a copy of the cached buffer, or the frame decoded
get_frame(self, frame_idx, env) ==
    IF frame_idx \in DOMAIN self.frame_cache
    THEN Returned(Some(self.frame_cache[frame_idx]), self)
    ELSE Decode(self, frame_idx, env)

-----------------------------------------------------------------------------
(* The embedding oracle *)

\* LapCounter.extract_frame_feature: deterministic in the pixels
extract_frame_feature(pix) == <<pix % ScenePeriod, pix \div ScenePeriod>>

\* np.dot of two unit vectors: higher when the two scenes are closer
Similarity(a, b) ==
    LET dd == Abs(a[1] - b[1])
    IN  -(IF dd < ScenePeriod - dd THEN dd ELSE ScenePeriod - dd)

-----------------------------------------------------------------------------
(* Lap session: reference frame and laps *)

\* LapCounter.set_reference_frame
set_reference_frame(self, frame_idx, env) ==
    LET g  == get_frame(self, frame_idx, env)
        s1 == [g.self EXCEPT !.ref_frame_idx = Some(frame_idx)]
    IN  IF g.raised
        THEN [status |-> "AttributeError", frame |-> None, self |-> g.self]
        ELSE IF g.frame = None
        THEN [status |-> "FrameUnavailable", frame |-> None, self |-> g.self]
        ELSE IF env.embedFails
             THEN [status |-> "EmbeddingError", frame |-> None, self |-> s1]
             ELSE [status |-> "success", frame |-> g.frame,
                   self |-> [s1 EXCEPT !.ref_feature =
                                Some(extract_frame_feature(Val(g.frame)))]]

\* lap_time = (end_frame_idx - self.ref_frame_idx) / self.fps
LapTime(self, end_frame_idx) ==
    Rat((end_frame_idx - Val(self.ref_frame_idx)) * self.fps.d, self.fps.n)

\* record_lap appending the lap before it checks the minimum lap time
record_lap_LateCheck(self, end_frame_idx) ==
    IF self.ref_frame_idx = None
    THEN [status |-> "ReferenceNotSet", lap_time |-> None, self |-> self]
    ELSE LET lap_time == LapTime(self, end_frame_idx)
             s1 == [self EXCEPT
                       !.lap_times = Append(@, lap_time),
                       !.lap_frame_indices = Append(@, end_frame_idx)]
         IN  IF RatLess(lap_time, self.min_lap_time)
             THEN [status |-> "LapTooShort", lap_time |-> None, self |-> s1]
             ELSE [status |-> "success", lap_time |-> Some(lap_time),
                   self |-> [s1 EXCEPT !.ref_frame_idx = Some(end_frame_idx)]]

\* record_lap leaving the reference where it was
record_lap_KeepRef(self, end_frame_idx) ==
    IF self.ref_frame_idx = None
    THEN [status |-> "ReferenceNotSet", lap_time |-> None, self |-> self]
    ELSE LET lap_time == LapTime(self, end_frame_idx)
         IN  IF RatLess(lap_time, self.min_lap_time)
             THEN [status |-> "LapTooShort", lap_time |-> None, self |-> self]
             ELSE [status |-> "success", lap_time |-> Some(lap_time),
                   self |-> [self EXCEPT
                       !.lap_times = Append(@, lap_time),
                       !.lap_frame_indices = Append(@, end_frame_idx)]]

\* LapCounter.record_lap
record_lap(self, end_frame_idx) ==
    IF self.ref_frame_idx = None
    THEN [status |-> "ReferenceNotSet", lap_time |-> None, self |-> self]
    ELSE LET lap_time == LapTime(self, end_frame_idx)
         IN  IF RatLess(lap_time, self.min_lap_time)
             THEN [status |-> "LapTooShort", lap_time |-> None, self |-> self]
             ELSE [status |-> "success", lap_time |-> Some(lap_time),
                   self |-> [self EXCEPT
                       !.lap_times = Append(@, lap_time),
                       !.lap_frame_indices = Append(@, end_frame_idx),
                       !.ref_frame_idx = Some(end_frame_idx)]]

-----------------------------------------------------------------------------
(* Time formatting and lap statistics *)

DigitChars == <<"0", "1", "2", "3", "4", "5", "6", "7", "8", "9">>

\* str(x) for x >= 0
RECURSIVE ToStr(_)
ToStr(x) ==
    IF x < 10 THEN DigitChars[x + 1]
    ELSE ToStr(x \div 10) \o DigitChars[(x % 10) + 1]

\* the number of characters of str(x), x >= 0
RECURSIVE Width(_)
Width(x) == IF x < 10 THEN 1 ELSE 1 + Width(x \div 10)

RECURSIVE Zeros(_)
Zeros(k) == IF k <= 0 THEN "" ELSE "0" \o Zeros(k - 1)

\* f"{x:0wd}": zero-padded to at least w characters, the sign counted
Pad(x, w) ==
    IF x >= 0 THEN Zeros(w - Width(x)) \o ToStr(x)
    ELSE "-" \o Zeros(w - 1 - Width(-x)) \o ToStr(-x)

\* LapCounter.format_time, seconds the rational n/d
format_time(seconds) ==
    LET whole   == Trunc(seconds.n, seconds.d)               \* int(seconds)
        minutes == whole \div 60
        secs    == whole % 60
        millis  == Trunc((seconds.n - whole * seconds.d) * 1000, seconds.d)
    IN  Pad(minutes, 2) \o ":" \o Pad(secs, 2) \o "." \o Pad(millis, 3)

\* a + b
RatAdd(a, b) ==
    IF a.d = b.d THEN Rat(a.n + b.n, a.d)
    ELSE Rat(a.n * b.d + b.n * a.d, a.d * b.d)

\* np.sum of a non-empty sequence
RECURSIVE RatSum(_)
RatSum(xs) ==
    IF Len(xs) = 1 THEN xs[1]
    ELSE RatAdd(RatSum(SubSeq(xs, 1, Len(xs) - 1)), xs[Len(xs)])

\* np.mean of a non-empty sequence
RatMean(xs) == Rat(RatSum(xs).n, RatSum(xs).d * Len(xs))

\* np.min of a non-empty sequence
RatMin(xs) ==
    xs[CHOOSE i \in 1..Len(xs) : \A j \in 1..Len(xs) : ~RatLess(xs[j], xs[i])]

\* np.max of a non-empty sequence
RatMax(xs) ==
    xs[CHOOSE i \in 1..Len(xs) : \A j \in 1..Len(xs) : ~RatLess(xs[i], xs[j])]

\* the "laps" list of get_lap_statistics
LapRows(self) ==
    [i \in 1..Len(self.lap_times) |->
        [lap_number     |-> i,
         time           |-> self.lap_times[i],
         formatted_time |-> format_time(self.lap_times[i]),
         frame_index    |-> self.lap_frame_indices[i]]]

\* get_lap_statistics reporting the shortest lap as the worst one
get_lap_statistics_WorstIsMin(self) ==
    IF self.lap_times = <<>>
    THEN [total_laps |-> 0, laps |-> <<>>]
    ELSE [total_laps  |-> Len(self.lap_times),
          laps        |-> LapRows(self),
          best_lap    |-> format_time(RatMin(self.lap_times)),
          worst_lap   |-> format_time(RatMin(self.lap_times)),
          average_lap |-> format_time(RatMean(self.lap_times)),
          total_time  |-> format_time(RatSum(self.lap_times))]

\* LapCounter.get_lap_statistics
get_lap_statistics(self) ==
    IF self.lap_times = <<>>
    THEN [total_laps |-> 0, laps |-> <<>>]
    ELSE [total_laps  |-> Len(self.lap_times),
          laps        |-> LapRows(self),
          best_lap    |-> format_time(RatMin(self.lap_times)),
          worst_lap   |-> format_time(RatMax(self.lap_times)),
          average_lap |-> format_time(RatMean(self.lap_times)),
          total_time  |-> format_time(RatSum(self.lap_times))]

-----------------------------------------------------------------------------
(* Similarity ranking *)

\* the loop's turn keeping the candidate's feature in self.ref_feature
ScoreOne_StoreFeature(st, idx, g, env) ==
    IF g.raised
    THEN [st EXCEPT !.self = g.self, !.raised = TRUE]
    ELSE IF g.frame = None
    THEN [st EXCEPT !.self = g.self]
    ELSE IF env.embedFails
         THEN [st EXCEPT !.self = g.self, !.raised = TRUE]
         ELSE [st EXCEPT
                  !.self = [g.self EXCEPT !.ref_feature =
                               Some(extract_frame_feature(Val(g.frame)))],
                  !.similarities = Append(@,
                      [frame_idx  |-> idx,
                       frame      |-> Val(g.frame),
                       similarity |-> Similarity(Val(st.self.ref_feature),
                                         extract_frame_feature(Val(g.frame)))])]

\* one turn of the loop of find_top_k_similar_frames, g the decoded frame
ScoreOne(st, idx, g, env) ==
    IF g.raised
    THEN [st EXCEPT !.self = g.self, !.raised = TRUE]
    ELSE IF g.frame = None
    THEN [st EXCEPT !.self = g.self]
    ELSE IF env.embedFails
         THEN [st EXCEPT !.self = g.self, !.raised = TRUE]
         ELSE [st EXCEPT
                  !.self = g.self,
                  !.similarities = Append(@,
                      [frame_idx  |-> idx,
                       frame      |-> Val(g.frame),
                       similarity |-> Similarity(Val(st.self.ref_feature),
                                         extract_frame_feature(Val(g.frame)))])]

\* the loop of find_top_k_similar_frames: decode, embed and score each index
RECURSIVE ScoreFrames(_, _, _, _)
ScoreFrames(st, frame_indices, i, env) ==
    IF st.raised \/ i > Len(frame_indices) THEN st
    ELSE ScoreFrames(
             ScoreOne(st, frame_indices[i],
                      get_frame(st.self, frame_indices[i], env), env),
             frame_indices, i + 1, env)

\* e placed in front of the entries of sorted that score the same
InsertDescending_BeforeEqual(sorted, e) ==
    LET p == Cardinality({j \in 1..Len(sorted) :
                             sorted[j].similarity > e.similarity})
    IN  SubSeq(sorted, 1, p) \o <<e>> \o SubSeq(sorted, p + 1, Len(sorted))

\* e placed behind the entries of sorted that score at least as high
InsertDescending(sorted, e) ==
    LET p == Cardinality({j \in 1..Len(sorted) :
                             sorted[j].similarity >= e.similarity})
    IN  SubSeq(sorted, 1, p) \o <<e>> \o SubSeq(sorted, p + 1, Len(sorted))

\* similarities.sort(key=lambda x: x[2], reverse=True): stable, descending
RECURSIVE SortDescending(_, _)
SortDescending(items, sorted) ==
    IF Len(sorted) >= Len(items) THEN sorted
    ELSE SortDescending(items, InsertDescending(sorted, items[Len(sorted) + 1]))

\* similarities[:k]
FirstK(items, k) == SubSeq(items, 1, IF Len(items) < k THEN Len(items) ELSE k)

\* find_top_k_similar_frames after its loop
TopOf(st, k) ==
    [raised |-> st.raised,
     top    |-> IF st.raised THEN <<>>
                ELSE FirstK(SortDescending(st.similarities, <<>>), k),
     self   |-> st.self]

\* LapCounter.find_top_k_similar_frames
find_top_k_similar_frames(self, frame_indices, k, env) ==
    IF self.ref_feature = None
    THEN [raised |-> TRUE, top |-> <<>>, self |-> self]
    ELSE TopOf(ScoreFrames([raised |-> FALSE, similarities |-> <<>>, self |-> self],
                           frame_indices, 1, env), k)

-----------------------------------------------------------------------------
(* Search window (search_lap) *)

\* start_frame: the last lap's end if there is one, else the reference frame
StartFrame(self) ==
    IF self.lap_frame_indices # <<>>
    THEN self.lap_frame_indices[Len(self.lap_frame_indices)]
    ELSE Val(self.ref_frame_idx)

\* min_frame = start_frame + int(counter.min_lap_time * counter.fps)
MinFrame(self) ==
    StartFrame(self)
        + Trunc(self.min_lap_time.n * self.fps.n, self.min_lap_time.d * self.fps.d)

\* max_frame = min(min_frame + int(search_range * counter.fps), total_frames - 1)
MaxFrame(self, search_range) ==
    LET a == MinFrame(self) + Trunc(search_range * self.fps.n, self.fps.d)
        b == self.total_frames - 1
    IN  IF a < b THEN a ELSE b

\* sample_interval = int(0.1 * counter.fps)
SampleInterval(self) == Trunc(self.fps.n, SampleRateDen * self.fps.d)

\* list(range(lo, hi, step)) for step > 0
Range(lo, hi, step) ==
    LET n == IF hi > lo THEN Ceil(hi - lo, step) ELSE 0
    IN  [j \in 1..n |-> lo + (j - 1) * step]

SearchError(status, self) ==
    [status |-> status, sampled |-> None, candidates |-> <<>>, self |-> self]

\* search_lap, the response to the ranking r of sampled_frames
SearchResult(sampled_frames, r) ==
    [status     |-> IF r.raised THEN "SearchFailed" ELSE "success",
     sampled    |-> Some(sampled_frames),
     candidates |-> r.top,
     self       |-> r.self]

\* search_lap, from the sampling on
SampleAndRank(self, min_frame, max_frame, env) ==
    LET sample_interval == SampleInterval(self)
        sampled_frames  == Range(min_frame, max_frame, sample_interval)
    IN  IF sample_interval = 0
        THEN SearchError("SearchFailed", self)   \* range() arg 3 must not be zero
        ELSE IF sampled_frames = <<>>
             THEN SearchError("EmptySearchRange", self)
             ELSE SearchResult(sampled_frames,
                      find_top_k_similar_frames(self, sampled_frames, TopK, env))

\* search_lap without the second check of the clamped window
search_lap_NoRecheck(self, search_range, env) ==
    LET min_frame == MinFrame(self)
        max_frame == MaxFrame(self, search_range)
    IN  IF self.ref_frame_idx = None
        THEN SearchError("ReferenceNotSet", self)
        ELSE IF min_frame >= self.total_frames
             THEN SearchError("EndOfVideo", self)
             ELSE IF max_frame <= min_frame
                  THEN SampleAndRank(self, min_frame, self.total_frames - 1, env)
                  ELSE SampleAndRank(self, min_frame, max_frame, env)

\* search_lap
search_lap(self, search_range, env) ==
    LET min_frame == MinFrame(self)
        max_frame == MaxFrame(self, search_range)
    IN  IF self.ref_frame_idx = None
        THEN SearchError("ReferenceNotSet", self)
        ELSE IF min_frame >= self.total_frames
             THEN SearchError("EndOfVideo", self)
             ELSE IF max_frame <= min_frame
                  THEN IF self.total_frames - 1 <= min_frame
                       THEN SearchError("InsufficientVideoRemaining", self)
                       ELSE SampleAndRank(self, min_frame, self.total_frames - 1, env)
                  ELSE SampleAndRank(self, min_frame, max_frame, env)

-----------------------------------------------------------------------------
(* Closing the session *)

\* if self.cap: self.cap.release(); self.cap = None
release_cap(self) ==
    [released |-> self.cap # None,
     self     |-> [self EXCEPT !.cap = None]]

\* close leaving the cache as it is
clear_cache_Keep(self) == self

\* self.frame_cache.clear()
clear_cache(self) == [self EXCEPT !.frame_cache = <<>>]

\* LapCounter.close: release the handle if there is one, clear the cache
close(self) ==
    [released |-> release_cap(self).released,
     self     |-> clear_cache(release_cap(self).self)]

-----------------------------------------------------------------------------
(* Worker threads *)

Threads == 1..NumThreads

IdleThread == [pc |-> "idle", op |-> "none", arg |-> 0, released |-> FALSE]

\* the lock taken by everyone who asks, held or not
CanAcquire_Always(t) == TRUE

\* threading.Lock.acquire returns once nobody holds the lock
CanAcquire(t) == video_lock = None

\* no call in progress
NoThreads == [t \in Threads |-> IdleThread]

-----------------------------------------------------------------------------
(* Handlers *)

Response(op, arg, status) ==
    [op |-> op, arg |-> arg, status |-> status, frame |-> None,
     lap_time |-> None, sampled |-> None, candidates |-> <<>>]

\* the handler's writes to the counter object
Store(self) ==
    /\ calls < MaxCalls
    /\ calls' = calls + 1
    /\ ref_frame_idx' = self.ref_frame_idx
    /\ ref_feature' = self.ref_feature
    /\ lap_times' = self.lap_times
    /\ lap_frame_indices' = self.lap_frame_indices
    /\ frame_cache' = self.frame_cache
    /\ last_frame_idx' = self.last_frame_idx
    /\ cap_pos' = self.cap_pos
    /\ cap' = self.cap
    /\ UNCHANGED <<fps, total_frames, min_lap_time, frame_request_count, stream,
                   video_lock, threads>>

Init ==
    \E video \in Videos :
        LET c == NewCounter(video.cfg)
        IN  /\ stream = video.stream
            /\ calls = 0
            /\ frame_request_count = 0
            /\ fps = c.fps
            /\ total_frames = c.total_frames
            /\ min_lap_time = c.min_lap_time
            /\ ref_frame_idx = c.ref_frame_idx
            /\ ref_feature = c.ref_feature
            /\ lap_times = c.lap_times
            /\ lap_frame_indices = c.lap_frame_indices
            /\ frame_cache = c.frame_cache
            /\ last_frame_idx = c.last_frame_idx
            /\ cap_pos = c.cap_pos
            /\ cap = c.cap
            /\ video_lock = None
            /\ threads = NoThreads
            /\ resp = Response("init", 0, "success")

\* GET /api/frame/<counter_id>/<frame_idx>
GetFrame ==
    \E frame_idx \in FrameInputs, env \in Envs :
        LET g == get_frame(Self, frame_idx, env)
        IN  /\ Store(g.self)
            /\ resp' = [op |-> "get_frame", arg |-> frame_idx,
                        status |-> IF g.raised THEN "AttributeError"
                                   ELSE IF g.frame = None THEN "FrameUnavailable"
                                   ELSE "success",
                        frame |-> g.frame,        \* the caller's buffer
                        returned |-> g.frame,     \* what the call returned
                        shared |-> g.shared,
                        previous |-> IF resp.op = "get_frame"
                                     THEN Some([arg |-> resp.arg, frame |-> resp.frame,
                                                returned |-> resp.returned])
                                     ELSE None]

\* POST /api/set-ref-frame/<counter_id>/<frame_idx>
SetRefFrame ==
    \E frame_idx \in RefInputs, env \in Envs :
        LET r == set_reference_frame(Self, frame_idx, env)
        IN  /\ Store(r.self)
            /\ resp' = [Response("set_reference", frame_idx, r.status)
                        EXCEPT !.frame = r.frame]

\* POST /api/search-lap/<counter_id>
SearchLap ==
    \E search_range \in RangeInputs, env \in Envs :
        LET r == search_lap(Self, search_range, env)
        IN  /\ Store(r.self)
            /\ resp' = [Response("search_next_lap", search_range, r.status)
                        EXCEPT !.sampled = r.sampled, !.candidates = r.candidates]

\* POST /api/confirm-lap/<counter_id>/<frame_idx>
ConfirmLap ==
    /\ Len(lap_times) < MaxLaps
    /\ \E frame_idx \in LapInputs :
        LET r == record_lap(Self, frame_idx)
        IN  /\ Store(r.self)
            /\ resp' = [Response("confirm_lap", frame_idx, r.status)
                        EXCEPT !.lap_time = r.lap_time]

\* the lap session's operations: set reference, search, confirm
Next ==
    \/ SetRefFrame
    \/ SearchLap
    \/ ConfirmLap

Spec == Init /\ [][Next]_vars

-----------------------------------------------------------------------------
(* The ranker called on its own: counter.find_top_k_similar_frames(list, k) *)

Rank ==
    \E frame_indices \in CandidateLists, k \in Ks, env \in Envs :
        LET r == find_top_k_similar_frames(Self, frame_indices, k, env)
        IN  /\ Store(r.self)
            /\ resp' = [Response("rank", [k |-> k, embedFails |-> env.embedFails],
                            IF r.raised THEN "RankFailed" ELSE "success")
                        EXCEPT !.sampled = Some(frame_indices),
                               !.candidates = r.top]

RankNext ==
    \/ SetRefFrame
    \/ Rank

RankSpec == Init /\ [][RankNext]_vars

-----------------------------------------------------------------------------
(* Laps and their statistics: set reference, confirm, read the statistics *)

\* the videos of the statistics runs: a 50 s video at 3 fps with an 18 s
\* minimum lap, and two of the session's videos
StatsVideos ==
    { [cfg |-> Config(3, 1, 150, 18),      stream |-> GoodStream],
      [cfg |-> Config(30, 1, 150, 0),      stream |-> GoodStream],
      [cfg |-> Config(2997, 100, 150, 2),  stream |-> GoodStream] }

StatsInit ==
    \E video \in StatsVideos :
        LET c == NewCounter(video.cfg)
        IN  /\ stream = video.stream
            /\ calls = 0
            /\ frame_request_count = 0
            /\ fps = c.fps
            /\ total_frames = c.total_frames
            /\ min_lap_time = c.min_lap_time
            /\ ref_frame_idx = c.ref_frame_idx
            /\ ref_feature = c.ref_feature
            /\ lap_times = c.lap_times
            /\ lap_frame_indices = c.lap_frame_indices
            /\ frame_cache = c.frame_cache
            /\ last_frame_idx = c.last_frame_idx
            /\ cap_pos = c.cap_pos
            /\ cap = c.cap
            /\ video_lock = None
            /\ threads = NoThreads
            /\ resp = Response("init", 0, "success")

\* GET /api/statistics/<counter_id>
GetStatistics ==
    /\ Store(Self)
    /\ resp' = [op |-> "statistics", arg |-> 0, status |-> "success",
                statistics |-> get_lap_statistics(Self)]

StatsNext ==
    \/ SetRefFrame
    \/ ConfirmLap
    \/ GetStatistics

StatsSpec == StatsInit /\ [][StatsNext]_vars

-----------------------------------------------------------------------------
(* The frame store on its own: get_frame calls after a forward scan *)

\* the videos of the frame-store runs: long enough for indices past 200
FrameVideos ==
    { [cfg |-> Config(30, 1, 260, 2), stream |-> GoodStream],
      [cfg |-> Config(30, 1, 260, 2), stream |-> BadSeekStream],
      [cfg |-> Config(30, 1, 260, 2), stream |-> CorruptStream],
      [cfg |-> Config(30, 1, 260, 2), stream |-> RevealedSeekStream] }

\* the counter after get_frame(i), get_frame(i + 1), ..., get_frame(n - 1)
RECURSIVE Scanned(_, _, _, _)
Scanned(self, i, n, env) ==
    IF i >= n \/ self.cap = None THEN self
    ELSE Scanned(get_frame(self, i, env).self, i + 1, n, env)

\* the session on video after a forward scan of n frames left the counter as c
StartsAs(video, c, n) ==
    /\ stream = video.stream
    /\ calls = 0
    /\ frame_request_count = 0
    /\ fps = c.fps
    /\ total_frames = c.total_frames
    /\ min_lap_time = c.min_lap_time
    /\ ref_frame_idx = c.ref_frame_idx
    /\ ref_feature = c.ref_feature
    /\ lap_times = c.lap_times
    /\ lap_frame_indices = c.lap_frame_indices
    /\ frame_cache = c.frame_cache
    /\ last_frame_idx = c.last_frame_idx
    /\ cap_pos = c.cap_pos
    /\ cap = c.cap
    /\ video_lock = None
    /\ threads = NoThreads
    /\ resp = Response("init", n, "success")

\* the stream of video while the embedding model works
EnvOf(video) ==
    [directBad |-> video.stream.directBad, anchorBad |-> video.stream.anchorBad,
     unreadable |-> video.stream.unreadable, embedFails |-> FALSE]

FrameInit ==
    \E video \in FrameVideos, n \in WarmScans :
        StartsAs(video, Scanned(NewCounter(video.cfg), 0, n, EnvOf(video)), n)

\* the caller of the last get_frame writes over the buffer it was handed
MutateBuffer ==
    /\ resp.op = "get_frame"
    /\ resp.frame # None
    /\ resp.frame # Some(Scribble)
    /\ resp' = [resp EXCEPT !.frame = Some(Scribble)]
    /\ frame_cache' = IF resp.shared /\ resp.arg \in DOMAIN frame_cache
                      THEN [frame_cache EXCEPT ![resp.arg] = Scribble]
                      ELSE frame_cache
    /\ UNCHANGED <<fps, total_frames, min_lap_time, frame_request_count, ref_frame_idx, ref_feature,
                   lap_times, lap_frame_indices, last_frame_idx, cap_pos, cap,
                   video_lock, threads, stream, calls>>

FrameNext ==
    \/ GetFrame
    \/ MutateBuffer
    \/ SetRefFrame

FrameSpec == FrameInit /\ [][FrameNext]_vars

-----------------------------------------------------------------------------
(* The session object used up to and after close(): the calls of a handler  *)
(* that holds the counter, or of any other user of the class                *)

\* counter.close()
Close ==
    LET r == close(Self)
    IN  /\ Store(r.self)
        /\ resp' = [op |-> "close", arg |-> 0, status |-> "success",
                    released |-> r.released]

CloseNext ==
    \/ GetFrame
    \/ SetRefFrame
    \/ SearchLap
    \/ ConfirmLap
    \/ GetStatistics
    \/ Close

CloseSpec == Init /\ [][CloseNext]_vars

-----------------------------------------------------------------------------
(* Worker threads calling get_frame and close on one counter at the same    *)
(* time.  A thread's pc names the statement it executes next; set_reference *)
(* and search_next_lap reach the stream and the cache only through          *)
(* get_frame.                                                               *)

ThreadVideos ==
    { [cfg |-> Config(30, 1, 150, 2), stream |-> GoodStream],
      [cfg |-> Config(30, 1, 150, 2), stream |-> CorruptStream] }

ThreadInit ==
    \E video \in ThreadVideos, n \in ThreadWarmScans :
        StartsAs(video, Scanned(NewCounter(video.cfg), 0, n, EnvOf(video)), n)

\* thread t moves to pc with the counter as self, holding the lock or not
Step(t, pc, self, lock) ==
    /\ threads' = [threads EXCEPT ![t].pc = pc]
    /\ video_lock' = lock
    /\ ref_frame_idx' = self.ref_frame_idx
    /\ ref_feature' = self.ref_feature
    /\ lap_times' = self.lap_times
    /\ lap_frame_indices' = self.lap_frame_indices
    /\ frame_cache' = self.frame_cache
    /\ last_frame_idx' = self.last_frame_idx
    /\ cap_pos' = self.cap_pos
    /\ cap' = self.cap
    /\ UNCHANGED <<fps, total_frames, min_lap_time, frame_request_count, stream, calls>>

\* thread t returns from its call with the counter as self
Return(t, self, lock, status, returned) ==
    /\ threads' = [threads EXCEPT ![t] = IdleThread]
    /\ video_lock' = lock
    /\ ref_frame_idx' = self.ref_frame_idx
    /\ ref_feature' = self.ref_feature
    /\ lap_times' = self.lap_times
    /\ lap_frame_indices' = self.lap_frame_indices
    /\ frame_cache' = self.frame_cache
    /\ last_frame_idx' = self.last_frame_idx
    /\ cap_pos' = self.cap_pos
    /\ cap' = self.cap
    /\ resp' = [op |-> threads[t].op, arg |-> threads[t].arg, thread |-> t,
                status |-> status, returned |-> returned,
                released |-> threads[t].released]
    /\ UNCHANGED <<fps, total_frames, min_lap_time, frame_request_count, stream, calls>>

\* a worker thread enters counter.get_frame(frame_idx)
StartGetFrame ==
    \E t \in Threads, frame_idx \in ThreadInputs :
        /\ threads[t].pc = "idle"
        /\ calls < MaxCalls
        /\ calls' = calls + 1
        /\ threads' = [threads EXCEPT
                          ![t] = [IdleThread EXCEPT !.pc = "check", !.op = "get_frame",
                                                    !.arg = frame_idx]]
        /\ UNCHANGED <<fps, total_frames, min_lap_time, frame_request_count, ref_frame_idx, ref_feature,
                       lap_times, lap_frame_indices, frame_cache, last_frame_idx,
                       cap_pos, cap, video_lock, stream, resp>>

\* a worker thread enters counter.close()
StartClose ==
    \E t \in Threads :
        /\ threads[t].pc = "idle"
        /\ calls < MaxCalls
        /\ calls' = calls + 1
        /\ threads' = [threads EXCEPT
                          ![t] = [IdleThread EXCEPT !.pc = "lock", !.op = "close"]]
        /\ UNCHANGED <<fps, total_frames, min_lap_time, frame_request_count, ref_frame_idx, ref_feature,
                       lap_times, lap_frame_indices, frame_cache, last_frame_idx,
                       cap_pos, cap, video_lock, stream, resp>>

\* get_frame: if frame_idx in self.frame_cache
CacheCheck ==
    \E t \in Threads :
        /\ threads[t].pc = "check"
        /\ Step(t, IF threads[t].arg \in DOMAIN frame_cache THEN "copy" ELSE "lock",
                Self, video_lock)
        /\ UNCHANGED resp

\* get_frame: return self.frame_cache[frame_idx].copy()
CacheCopy ==
    \E t \in Threads :
        /\ threads[t].pc = "copy"
        /\ IF threads[t].arg \in DOMAIN frame_cache
           THEN Return(t, Self, video_lock, "success",
                       Some(frame_cache[threads[t].arg]))
           ELSE Return(t, Self, video_lock, "KeyError", None)

\* get_frame, close: with self.video_lock
Acquire ==
    \E t \in Threads :
        /\ threads[t].pc = "lock"
        /\ CanAcquire(t)
        /\ Step(t, IF threads[t].op = "close" THEN "release" ELSE "read",
                Self, Some(t))
        /\ UNCHANGED resp

\* get_frame: the first operation on self.cap (cap.read() or cap.set());
\* on a released handle it raises and the with block gives the lock back
FirstStreamOp ==
    \E t \in Threads :
        /\ threads[t].pc = "read"
        /\ IF cap = None
           THEN Return(t, Self, None, "AttributeError", None)
           ELSE Step(t, "decoding", Self, video_lock) /\ UNCHANGED resp

\* get_frame: the remaining reads and cache inserts, then the return
FinishDecode ==
    \E t \in Threads, env \in Envs :
        /\ threads[t].pc = "decoding"
        /\ LET g == Decode(Self, threads[t].arg, env)
           IN  Return(t, g.self, None,
                      IF g.raised THEN "AttributeError"
                      ELSE IF g.frame = None THEN "FrameUnavailable" ELSE "success",
                      g.frame)

\* close: if self.cap: self.cap.release(); self.cap = None
ReleaseHandle ==
    \E t \in Threads :
        /\ threads[t].pc = "release"
        /\ LET r == release_cap(Self)
           IN  /\ threads' = [threads EXCEPT ![t].pc = "clear",
                                             ![t].released = r.released]
               /\ cap' = r.self.cap
        /\ UNCHANGED <<fps, total_frames, min_lap_time, frame_request_count, ref_frame_idx, ref_feature,
                       lap_times, lap_frame_indices, frame_cache, last_frame_idx,
                       cap_pos, video_lock, stream, calls, resp>>

\* close: self.frame_cache.clear(), then the with block gives the lock back
ClearCache ==
    \E t \in Threads :
        /\ threads[t].pc = "clear"
        /\ Return(t, clear_cache(Self), None, "success", None)

ThreadNext ==
    \/ StartGetFrame
    \/ StartClose
    \/ CacheCheck
    \/ CacheCopy
    \/ Acquire
    \/ FirstStreamOp
    \/ FinishDecode
    \/ ReleaseHandle
    \/ ClearCache

ThreadSpec == ThreadInit /\ [][ThreadNext]_vars

-----------------------------------------------------------------------------
(* The frame endpoint under concurrent requests: app.run serves every       *)
(* request on a thread of its own, and frame_request_count is a module      *)
(* global read and written without a lock.  A thread's pc names the         *)
(* statement of the handler it executes next; `x += 1` is a read of the     *)
(* global followed by a write.                                              *)

NumRequests == 4

max_concurrent_frame_requests == 3

Requests == 1..NumRequests

\* a worker thread between requests
IdleRequest ==
    [pc |-> "idle", op |-> "none", arg |-> 0, released |-> FALSE,
     counter_id |-> "none", loaded |-> 0, status |-> "none"]

NoRequests == [t \in Requests |-> IdleRequest]

\* the requests sent: a frame of the session, a frame that does not decode,
\* and a counter id that is not in active_counters
AdmitInputs ==
    { [counter_id |-> "counter_1", frame_idx |-> 0],
      [counter_id |-> "counter_1", frame_idx |-> 120],
      [counter_id |-> "counter_9", frame_idx |-> 0] }

AdmitInit ==
    LET c == NewCounter(Config(30, 1, 150, 2))
    IN  /\ stream = CorruptStream
        /\ calls = 0
        /\ frame_request_count = 0
        /\ fps = c.fps
        /\ total_frames = c.total_frames
        /\ min_lap_time = c.min_lap_time
        /\ ref_frame_idx = c.ref_frame_idx
        /\ ref_feature = c.ref_feature
        /\ lap_times = c.lap_times
        /\ lap_frame_indices = c.lap_frame_indices
        /\ frame_cache = c.frame_cache
        /\ last_frame_idx = c.last_frame_idx
        /\ cap_pos = c.cap_pos
        /\ cap = c.cap
        /\ video_lock = None
        /\ threads = NoRequests
        /\ resp = Response("init", 0, "success")

\* the counter object is left as it is
SessionUnchanged ==
    UNCHANGED <<fps, total_frames, min_lap_time, ref_frame_idx, ref_feature,
                lap_times, lap_frame_indices, frame_cache, last_frame_idx,
                cap_pos, cap, video_lock, stream>>

\* the worker threads are interchangeable: a request goes to the first idle one
FirstIdle(t) ==
    /\ threads[t].pc = "idle"
    /\ \A u \in Requests : u < t => threads[u].pc # "idle"

\* a request for /api/frame/<counter_id>/<frame_idx> reaches a worker thread;
\* the handler looks at counter_id and frame_idx only once it is admitted
Arrive ==
    \E t \in Requests :
        /\ FirstIdle(t)
        /\ calls < MaxCalls
        /\ calls' = calls + 1
        /\ threads' = [threads EXCEPT
                          ![t] = [IdleRequest EXCEPT !.pc = "admit", !.op = "get_frame"]]
        /\ SessionUnchanged
        /\ UNCHANGED <<frame_request_count, resp>>

\* if frame_request_count >= max_concurrent_frame_requests: return 429
Admit(t) ==
    IF frame_request_count >= max_concurrent_frame_requests
    THEN /\ threads' = [threads EXCEPT ![t] = IdleRequest]
         /\ resp' = Response("get_frame", 0, "TooManyRequests")
    ELSE /\ threads' = [threads EXCEPT ![t].pc = "inc_load"]
         /\ UNCHANGED resp

AdmitCheck ==
    \E t \in Requests :
        /\ threads[t].pc = "admit"
        /\ Admit(t)
        /\ SessionUnchanged
        /\ UNCHANGED <<frame_request_count, calls>>

\* frame_request_count += 1 and frame_request_count -= 1: the read
LoadCount ==
    \E t \in Requests :
        /\ threads[t].pc \in {"inc_load", "dec_load"}
        /\ threads' = [threads EXCEPT
                          ![t].loaded = frame_request_count,
                          ![t].pc = IF threads[t].pc = "inc_load"
                                    THEN "inc_store" ELSE "dec_store"]
        /\ SessionUnchanged
        /\ UNCHANGED <<frame_request_count, calls, resp>>

\* frame_request_count += 1: the write
StoreIncrement ==
    \E t \in Requests :
        /\ threads[t].pc = "inc_store"
        /\ frame_request_count' = threads[t].loaded + 1
        /\ threads' = [threads EXCEPT ![t].pc = "serve", ![t].loaded = 0]
        /\ SessionUnchanged
        /\ UNCHANGED <<calls, resp>>

\* active_counters.get(counter_id), then counter.get_frame(frame_idx)
Serve ==
    \E t \in Requests, req \in AdmitInputs :
        /\ threads[t].pc = "serve"
        /\ IF req.counter_id \notin {"counter_1"}
           THEN /\ threads' = [threads EXCEPT ![t].pc = "dec_load",
                                              ![t].arg = req.frame_idx,
                                              ![t].counter_id = req.counter_id,
                                              ![t].status = "InvalidCounter"]
                /\ SessionUnchanged
           ELSE LET g == get_frame(Self, req.frame_idx, Env(FALSE))
                IN  /\ threads' = [threads EXCEPT
                                      ![t].pc = "dec_load",
                                      ![t].arg = req.frame_idx,
                                      ![t].counter_id = req.counter_id,
                                      ![t].status =
                                          IF g.raised THEN "AttributeError"
                                          ELSE IF g.frame = None THEN "FrameUnavailable"
                                          ELSE "success"]
                    /\ frame_cache' = g.self.frame_cache
                    /\ last_frame_idx' = g.self.last_frame_idx
                    /\ cap_pos' = g.self.cap_pos
                    /\ UNCHANGED <<fps, total_frames, min_lap_time, ref_frame_idx,
                                   ref_feature, lap_times, lap_frame_indices, cap,
                                   video_lock, stream>>
        /\ UNCHANGED <<frame_request_count, calls, resp>>

\* frame_request_count -= 1: the write, then the handler returns
StoreDecrement ==
    \E t \in Requests :
        /\ threads[t].pc = "dec_store"
        /\ frame_request_count' = threads[t].loaded - 1
        /\ threads' = [threads EXCEPT ![t] = IdleRequest]
        /\ resp' = Response("get_frame", threads[t].arg, threads[t].status)
        /\ SessionUnchanged
        /\ UNCHANGED calls

AdmitNext ==
    \/ Arrive
    \/ AdmitCheck
    \/ LoadCount
    \/ StoreIncrement
    \/ Serve
    \/ StoreDecrement

AdmitSpec == AdmitInit /\ [][AdmitNext]_vars

-----------------------------------------------------------------------------
(* The lap session under concurrent requests: set_reference, confirm_lap    *)
(* and statistics served by worker threads at the same time.  Neither the   *)
(* handlers nor set_reference_frame, record_lap and get_lap_statistics take *)
(* a lock, so a thread's pc names the statement it executes next and the    *)
(* other thread may run between any two of them.                            *)

\* a worker thread between requests, with the locals of the call it serves
IdleWorker ==
    [pc |-> "idle", op |-> "none", arg |-> 0, released |-> FALSE,
     ref |-> None, lap_time |-> None, frame |-> None]

NoWorkers == [t \in Threads |-> IdleWorker]

SessionRefs == {0, 60}

SessionLaps == {60, 120}

\* a new session, or one whose reference is already frame 0
SessionInit ==
    \E referenced \in BOOLEAN :
        LET new == NewCounter(Config(30, 1, 150, 2))
            c   == IF referenced
                   THEN set_reference_frame(new, 0, EnvOf([stream |-> GoodStream])).self
                   ELSE new
        IN  /\ stream = GoodStream
            /\ calls = 0
            /\ frame_request_count = 0
            /\ fps = c.fps
            /\ total_frames = c.total_frames
            /\ min_lap_time = c.min_lap_time
            /\ ref_frame_idx = c.ref_frame_idx
            /\ ref_feature = c.ref_feature
            /\ lap_times = c.lap_times
            /\ lap_frame_indices = c.lap_frame_indices
            /\ frame_cache = c.frame_cache
            /\ last_frame_idx = c.last_frame_idx
            /\ cap_pos = c.cap_pos
            /\ cap = c.cap
            /\ video_lock = None
            /\ threads = NoWorkers
            /\ resp = Response("init", 0, "success")

\* what one statement leaves alone
Fixed == UNCHANGED <<fps, total_frames, min_lap_time, frame_request_count, stream,
                     video_lock, cap>>

LapsFixed == UNCHANGED <<lap_times, lap_frame_indices>>

ReferenceFixed == UNCHANGED <<ref_frame_idx, ref_feature>>

StoreFixed == UNCHANGED <<frame_cache, last_frame_idx, cap_pos>>

\* thread t takes a request for op with argument arg
Begin(t, op, arg, pc) ==
    /\ threads[t].pc = "idle"
    /\ calls < MaxCalls
    /\ calls' = calls + 1
    /\ threads' = [threads EXCEPT
                      ![t] = [IdleWorker EXCEPT !.pc = pc, !.op = op, !.arg = arg]]
    /\ Fixed /\ LapsFixed /\ ReferenceFixed /\ StoreFixed
    /\ UNCHANGED resp

\* thread t answers its request
Answer(t, response) ==
    /\ threads' = [threads EXCEPT ![t] = IdleWorker]
    /\ resp' = response

\* get_lap_statistics: self.lap_frame_indices[i] for every i of self.lap_times
read_statistics(self) ==
    IF Len(self.lap_frame_indices) < Len(self.lap_times)
    THEN [status |-> "IndexError", statistics |-> None]
    ELSE [status |-> "success", statistics |-> Some(get_lap_statistics(self))]

\* POST /api/confirm-lap/<counter_id>/<frame_idx> reaches a worker thread
StartConfirmLap ==
    \E t \in Threads, frame_idx \in SessionLaps :
        /\ Len(lap_times) < MaxLaps
        /\ Begin(t, "confirm_lap", frame_idx, "rl_read")

\* record_lap: the reference check, lap_time and the minimum lap time check
MeasureLap ==
    \E t \in Threads :
        /\ threads[t].pc = "rl_read"
        /\ LET r == record_lap(Self, threads[t].arg)
           IN  IF r.status = "success"
               THEN /\ threads' = [threads EXCEPT ![t].pc = "rl_times",
                                                  ![t].ref = ref_frame_idx,
                                                  ![t].lap_time = r.lap_time]
                    /\ UNCHANGED resp
               ELSE Answer(t, Response("confirm_lap", threads[t].arg, r.status))
        /\ Fixed /\ LapsFixed /\ ReferenceFixed /\ StoreFixed
        /\ UNCHANGED calls

\* record_lap: self.lap_times.append(lap_time)
AppendLapTime ==
    \E t \in Threads :
        /\ threads[t].pc = "rl_times"
        /\ lap_times' = Append(lap_times, Val(threads[t].lap_time))
        /\ threads' = [threads EXCEPT ![t].pc = "rl_indices"]
        /\ Fixed /\ ReferenceFixed /\ StoreFixed
        /\ UNCHANGED <<lap_frame_indices, calls, resp>>

\* record_lap: self.lap_frame_indices.append(end_frame_idx)
AppendLapIndex ==
    \E t \in Threads :
        /\ threads[t].pc = "rl_indices"
        /\ lap_frame_indices' = Append(lap_frame_indices, threads[t].arg)
        /\ threads' = [threads EXCEPT ![t].pc = "rl_ref"]
        /\ Fixed /\ ReferenceFixed /\ StoreFixed
        /\ UNCHANGED <<lap_times, calls, resp>>

\* record_lap: self.ref_frame_idx = end_frame_idx
MoveReference ==
    \E t \in Threads :
        /\ threads[t].pc = "rl_ref"
        /\ ref_frame_idx' = Some(threads[t].arg)
        /\ threads' = [threads EXCEPT ![t].pc = "rl_stats"]
        /\ Fixed /\ LapsFixed /\ StoreFixed
        /\ UNCHANGED <<ref_feature, calls, resp>>

\* confirm_lap: stats = counter.get_lap_statistics() and the response
ConfirmReturn ==
    \E t \in Threads :
        /\ threads[t].pc = "rl_stats"
        /\ LET s == read_statistics(Self)
           IN  Answer(t, [op |-> "confirm_lap", arg |-> threads[t].arg,
                          status |-> s.status, lap_time |-> threads[t].lap_time,
                          statistics |-> s.statistics])
        /\ Fixed /\ LapsFixed /\ ReferenceFixed /\ StoreFixed
        /\ UNCHANGED calls

\* GET /api/statistics/<counter_id> served by a worker thread
ReadStatistics ==
    \E t \in Threads :
        /\ threads[t].pc = "idle"
        /\ calls < MaxCalls
        /\ calls' = calls + 1
        /\ LET s == read_statistics(Self)
           IN  resp' = [op |-> "statistics", arg |-> 0, status |-> s.status,
                        statistics |-> s.statistics]
        /\ Fixed /\ LapsFixed /\ ReferenceFixed /\ StoreFixed
        /\ UNCHANGED threads

\* POST /api/set-ref-frame/<counter_id>/<frame_idx> reaches a worker thread
StartSetReference ==
    \E t \in Threads, frame_idx \in SessionRefs :
        /\ threads[t].pc = "idle"
        /\ Begin(t, "set_reference", frame_idx, "sr_frame")

\* set_reference_frame: frame = self.get_frame(frame_idx)
FetchReference ==
    \E t \in Threads :
        /\ threads[t].pc = "sr_frame"
        /\ LET g == get_frame(Self, threads[t].arg, Env(FALSE))
           IN  /\ IF g.raised \/ g.frame = None
                  THEN Answer(t, Response("set_reference", threads[t].arg,
                                          IF g.raised THEN "AttributeError"
                                          ELSE "FrameUnavailable"))
                  ELSE /\ threads' = [threads EXCEPT ![t].pc = "sr_idx",
                                                     ![t].frame = g.frame]
                       /\ UNCHANGED resp
               /\ frame_cache' = g.self.frame_cache
               /\ last_frame_idx' = g.self.last_frame_idx
               /\ cap_pos' = g.self.cap_pos
        /\ Fixed /\ LapsFixed /\ ReferenceFixed
        /\ UNCHANGED calls

\* set_reference_frame: self.ref_frame_idx = frame_idx
WriteReference ==
    \E t \in Threads :
        /\ threads[t].pc = "sr_idx"
        /\ ref_frame_idx' = Some(threads[t].arg)
        /\ threads' = [threads EXCEPT ![t].pc = "sr_feature"]
        /\ Fixed /\ LapsFixed /\ StoreFixed
        /\ UNCHANGED <<ref_feature, calls, resp>>

\* set_reference_frame: self.ref_feature = self.extract_frame_feature(frame)
WriteFeature ==
    \E t \in Threads, env \in Envs :
        /\ threads[t].pc = "sr_feature"
        /\ IF env.embedFails
           THEN /\ Answer(t, Response("set_reference", threads[t].arg, "EmbeddingError"))
                /\ UNCHANGED ref_feature
           ELSE /\ Answer(t, [Response("set_reference", threads[t].arg, "success")
                                 EXCEPT !.frame = threads[t].frame])
                /\ ref_feature' = Some(extract_frame_feature(Val(threads[t].frame)))
        /\ Fixed /\ LapsFixed /\ StoreFixed
        /\ UNCHANGED <<ref_frame_idx, calls>>

SessionNext ==
    \/ StartConfirmLap
    \/ MeasureLap
    \/ AppendLapTime
    \/ AppendLapIndex
    \/ MoveReference
    \/ ConfirmReturn
    \/ ReadStatistics
    \/ StartSetReference
    \/ FetchReference
    \/ WriteReference
    \/ WriteFeature

SessionSpec == SessionInit /\ [][SessionNext]_vars

-----------------------------------------------------------------------------
(* Properties *)

\* the last handler call, as the next state records it
Called(op) == resp'.op = op /\ calls' = calls + 1

Succeeded(op) == Called(op) /\ resp'.status = "success"

LapsUnchanged ==
    /\ lap_times' = lap_times
    /\ lap_frame_indices' = lap_frame_indices

\* (f - ref) / fps < min_lap_time, in integers
TooShort(f) ==
    (f - Val(ref_frame_idx)) * fps.d * min_lap_time.d < min_lap_time.n * fps.n

\* C1: with a reference set, confirm_lap(f) is rejected with LapTooShort
\* whenever (f - reference_frame_index)/fps < min_lap_duration_seconds, and the
\* rejected call leaves reference_frame_index and confirmed_laps as they were.
C1_ShortLapRejected ==
    [][(Called("confirm_lap") /\ ref_frame_idx # None /\ TooShort(resp'.arg))
        => /\ resp'.status = "LapTooShort"
           /\ ref_frame_idx' = ref_frame_idx
           /\ LapsUnchanged]_vars

\* a lap is on record and a later, too short one has just been rejected
C1_Witness ==
    /\ resp.op = "confirm_lap"
    /\ resp.status = "LapTooShort"
    /\ Len(lap_frame_indices) = 1
    /\ resp.arg - Val(ref_frame_idx) > 0

\* C2: a successful confirm_lap(f) returns (f - old reference)/fps, makes f the
\* reference and appends exactly one lap, with frame index f, behind the
\* unchanged earlier laps.
C2_ConfirmCommits ==
    [][Succeeded("confirm_lap")
        => /\ ref_frame_idx # None
           /\ resp'.lap_time # None
           /\ Val(resp'.lap_time).n * fps.n
                  = (resp'.arg - Val(ref_frame_idx)) * fps.d * Val(resp'.lap_time).d
           /\ ref_frame_idx' = Some(resp'.arg)
           /\ lap_frame_indices' = Append(lap_frame_indices, resp'.arg)
           /\ lap_times' = Append(lap_times, Val(resp'.lap_time))]_vars

\* the second lap has just been confirmed, measured from the first lap's end
C2_Witness ==
    /\ resp.op = "confirm_lap"
    /\ resp.status = "success"
    /\ Len(lap_frame_indices) = 2
    /\ lap_frame_indices[1] < lap_frame_indices[2]
    /\ ref_frame_idx = Some(lap_frame_indices[2])

\* C3: after a successful set_reference or confirm_lap, reference_embedding is
\* the oracle's embedding of the frame at reference_frame_index.
C3_EmbeddingFollowsReference ==
    (resp.op \in {"set_reference", "confirm_lap"} /\ resp.status = "success")
        => ref_feature = Some(extract_frame_feature(Val(ref_frame_idx)))

\* C4: the frame indices in confirmed_laps are strictly increasing in
\* confirmation order.
C4_LapsStrictlyIncreasing ==
    \A i, j \in 1..Len(lap_frame_indices) :
        i < j => lap_frame_indices[i] < lap_frame_indices[j]

\* C5: once set, reference_frame_index lies in [0, total_frame_count).
C5_ReferenceInRange ==
    ref_frame_idx # None
        => (0 <= Val(ref_frame_idx) /\ Val(ref_frame_idx) < total_frames)

\* C6: a session operation that fails leaves reference_frame_index,
\* reference_embedding and confirmed_laps exactly as they were.
C6_FailureChangesNothing ==
    [][(calls' = calls + 1 /\ resp'.status # "success")
        => /\ ref_frame_idx' = ref_frame_idx
           /\ ref_feature' = ref_feature
           /\ LapsUnchanged]_vars

\* the specified window start: start + ceil(min_lap_duration_seconds * fps)
CeilMinFrame ==
    (IF lap_frame_indices # <<>>
     THEN lap_frame_indices[Len(lap_frame_indices)]
     ELSE Val(ref_frame_idx))
        + Ceil(min_lap_time.n * fps.n, min_lap_time.d * fps.d)

\* c < min(min_frame + search_window_seconds * fps, total_frame_count - 1),
\* the bound clamped to total_frame_count - 1 when the window is degenerate
BelowCeilMaxFrame(c, search_range) ==
    LET inWindow == (c - CeilMinFrame) * fps.d < search_range * fps.n
        degenerate ==
            \/ search_range * fps.n <= 0
            \/ total_frames - 1 <= CeilMinFrame
    IN  /\ c < total_frames - 1
        /\ degenerate \/ inWindow

\* C7: every candidate search_next_lap returns has an index in
\* [min_frame, max_frame), min_frame = start + ceil(min_lap_duration_seconds * fps).
C7_CandidatesInWindow ==
    [][Succeeded("search_next_lap")
        => \A k \in 1..Len(resp'.candidates) :
               /\ CeilMinFrame <= resp'.candidates[k].frame_idx
               /\ BelowCeilMaxFrame(resp'.candidates[k].frame_idx, resp'.arg)]_vars

\* Python round(n/d), d > 0: to the nearest integer, a tie to the even one
Round(n, d) ==
    LET q == n \div d
        r == n % d
    IN  IF 2 * r < d THEN q
        ELSE IF 2 * r > d THEN q + 1
        ELSE IF q % 2 = 0 THEN q ELSE q + 1

\* the window search_lap samples, once its end-of-video checks have passed
WindowEnd(search_range) ==
    IF MaxFrame(Self, search_range) <= MinFrame(Self)
    THEN total_frames - 1
    ELSE MaxFrame(Self, search_range)

\* min_frame, min_frame + s, ... below max_frame; nothing when s is 0
Sampling(lo, hi, s) ==
    IF s <= 0 \/ hi <= lo THEN <<>>
    ELSE [j \in 1..Ceil(hi - lo, s) |-> lo + (j - 1) * s]

\* C8: search_next_lap samples min_frame, min_frame + s, ... below max_frame with
\* s = round(0.1 * fps), and fails with EmptySearchRange when that is empty.
C8_SamplingStep ==
    [][(Called("search_next_lap")
            /\ resp'.status \notin {"ReferenceNotSet", "EndOfVideo",
                                    "InsufficientVideoRemaining"})
        => LET expected == Sampling(MinFrame(Self), WindowEnd(resp'.arg),
                                    Round(fps.n, SampleRateDen * fps.d))
           IN  IF expected = <<>>
               THEN resp'.status = "EmptySearchRange"
               ELSE resp'.sampled = Some(expected)]_vars

C10_SearchReadOnly ==
    [][Called("search_next_lap")
        => /\ ref_frame_idx' = ref_frame_idx
           /\ ref_feature' = ref_feature
           /\ LapsUnchanged
           /\ UNCHANGED <<fps, total_frames, min_lap_time>>]_vars

\* a search has just ranked candidates, filling the cache on its way
C10_Witness ==
    /\ resp.op = "search_next_lap"
    /\ resp.status = "success"
    /\ Len(resp.candidates) = TopK
    /\ \A k \in 1..TopK : resp.candidates[k].frame_idx \in DOMAIN frame_cache
    /\ ref_feature # None

\* no set_reference has succeeded yet: ref_feature is assigned only by the last
\* statement of set_reference_frame and is never cleared
NoReferenceYet == ref_feature = None

\* C11: before a set_reference has succeeded, search_next_lap fails with
\* ReferenceNotSet and confirm_lap fails, and both leave the session without a
\* reference and without laps.
C11_NothingBeforeReference ==
    [][(NoReferenceYet /\ calls' = calls + 1
            /\ resp'.op \in {"search_next_lap", "confirm_lap"})
        => /\ resp'.status # "success"
           /\ resp'.op = "search_next_lap" => resp'.status = "ReferenceNotSet"
           /\ ref_frame_idx' = None
           /\ lap_times' = <<>>
           /\ lap_frame_indices' = <<>>]_vars

\* the frame at idx decodes: it exists and the file holds it undamaged
Decodes(idx) == 0 <= idx /\ idx < total_frames /\ idx \notin stream.unreadable

\* the score of the frame at idx against the reference embedding
ScoreOf(idx) == Similarity(Val(ref_feature), extract_frame_feature(idx))

\* where idx stands in a list without repetitions
PosIn(list, idx) == CHOOSE i \in 1..Len(list) : list[i] = idx

\* a ranks ahead of b: a higher score, or the same score and earlier in the list
Ahead(sa, pa, sb, pb) == sa > sb \/ (sa = sb /\ pa < pb)

\* top is the ranking of the candidates of list that decode, cut to k
IsRanking(top, list, k) ==
    LET decoded == {i \in 1..Len(list) : Decodes(list[i])}
        n       == Cardinality(decoded)
        chosen  == {PosIn(list, top[j].frame_idx) : j \in 1..Len(top)}
    IN  /\ Len(top) = (IF n < k THEN n ELSE k)
        /\ \A j \in 1..Len(top) :
               /\ \E i \in decoded : list[i] = top[j].frame_idx
               /\ top[j].similarity = ScoreOf(top[j].frame_idx)
        /\ \A j, jj \in 1..Len(top) :
               j < jj => Ahead(top[j].similarity, PosIn(list, top[j].frame_idx),
                               top[jj].similarity, PosIn(list, top[jj].frame_idx))
        /\ \A i \in decoded \ chosen : \A j \in 1..Len(top) :
               Ahead(top[j].similarity, PosIn(list, top[j].frame_idx),
                     ScoreOf(list[i]), i)

\* C12: rank returns the k highest-scoring candidates among those that decode
\* (all of them if fewer decode), each once, by non-increasing score with equal
\* scores in candidate-list order; an undecodable candidate is skipped and does
\* not abort the ranking.
C12_RankTopK ==
    [][(Called("rank") /\ ref_feature # None /\ ~resp'.arg.embedFails)
        => /\ resp'.status = "success"
           /\ IsRanking(resp'.candidates, Val(resp'.sampled), resp'.arg.k)]_vars

\* a ranking that skipped an undecodable frame, cut the list to k and kept two
\* equal scores in list order
C12_Witness ==
    /\ resp.op = "rank"
    /\ resp.status = "success"
    /\ \E i \in 1..Len(Val(resp.sampled)) : ~Decodes(Val(resp.sampled)[i])
    /\ Len(resp.candidates) = resp.arg.k
    /\ Cardinality({i \in 1..Len(Val(resp.sampled)) :
                       Decodes(Val(resp.sampled)[i])}) > resp.arg.k
    /\ \E j \in 1..(Len(resp.candidates) - 1) :
           resp.candidates[j].similarity = resp.candidates[j + 1].similarity

\* the rational x equals the integer v
RatIs(x, v) == x.n = v * x.d

\* C13: statistics() is a pure read that mirrors confirmed_laps: total_laps is
\* the number of laps, the list is in confirmation order with lap_number i and
\* the lap's frame index, best/worst/average/total are the formatted
\* min/max/mean/sum (20.0 s and 22.0 s give 00:20.000, 00:22.000, 00:21.000,
\* 00:42.000); with no laps it reports total_laps 0, an empty list and no
\* other field.
C13_StatisticsMirrorLaps ==
    [][Called("statistics")
        => LET st == resp'.statistics
               n  == Len(lap_times)
           IN  /\ UNCHANGED <<fps, total_frames, min_lap_time, ref_frame_idx,
                              ref_feature, lap_times, lap_frame_indices,
                              frame_cache, last_frame_idx, cap_pos>>
               /\ resp'.status = "success"
               /\ st.total_laps = n
               /\ Len(st.laps) = n
               /\ n = 0 => DOMAIN st = {"total_laps", "laps"}
               /\ n > 0 =>
                    /\ \A i \in 1..n :
                           /\ st.laps[i].lap_number = i
                           /\ st.laps[i].time = lap_times[i]
                           /\ st.laps[i].frame_index = lap_frame_indices[i]
                    /\ \E i \in 1..n :
                           /\ \A j \in 1..n : ~RatLess(lap_times[j], lap_times[i])
                           /\ st.best_lap = format_time(lap_times[i])
                    /\ \E i \in 1..n :
                           /\ \A j \in 1..n : ~RatLess(lap_times[i], lap_times[j])
                           /\ st.worst_lap = format_time(lap_times[i])
                    /\ st.total_time = format_time(RatSum(lap_times))
                    /\ st.average_lap =
                           format_time(Rat(RatSum(lap_times).n, RatSum(lap_times).d * n))
               /\ (n = 2 /\ RatIs(lap_times[1], 20) /\ RatIs(lap_times[2], 22)) =>
                    /\ st.best_lap = "00:20.000"
                    /\ st.worst_lap = "00:22.000"
                    /\ st.average_lap = "00:21.000"
                    /\ st.total_time = "00:42.000"]_vars

\* the statistics of two laps of 20 s and 22 s have just been read
C13_Witness ==
    /\ resp.op = "statistics"
    /\ Len(lap_times) = 2
    /\ RatIs(lap_times[1], 20)
    /\ RatIs(lap_times[2], 22)
    /\ resp.statistics.total_laps = 2
    /\ resp.statistics.average_lap = "00:21.000"

C15_OutOfRangeNotFound ==
    [][(Called("get_frame") /\ cap # None
            /\ (resp'.arg < 0 \/ resp'.arg >= total_frames))
        => /\ resp'.status = "FrameUnavailable"
           /\ resp'.returned = None]_vars

\* C16: in every reachable state, after any sequence and any interleaving of
\* get_frame, set_reference and search_next_lap calls, the frame cache holds at
\* most 100 entries.
C16_CacheBounded == Cardinality(DOMAIN frame_cache) <= CacheLimit

\* the cache is full and a get_frame has just decoded a frame it could not keep
C16_Witness ==
    /\ Cardinality(DOMAIN frame_cache) = CacheLimit
    /\ resp.op = "get_frame"
    /\ resp.status = "success"
    /\ resp.arg \notin DOMAIN frame_cache

\* close() has run: only close assigns None to self.cap
Closed == cap = None

\* C17: after close(), every later get_frame, set_reference, search_next_lap,
\* confirm_lap and statistics fails with SessionClosed and changes no session
\* state; no lap is recorded after close.
C17_ClosedIsTerminal ==
    [][(Closed /\ calls' = calls + 1 /\ resp'.op # "close")
        => /\ resp'.status = "SessionClosed"
           /\ ref_frame_idx' = ref_frame_idx
           /\ ref_feature' = ref_feature
           /\ LapsUnchanged
           /\ frame_cache' = frame_cache
           /\ cap' = cap]_vars

\* thread t takes a step of its call
Moves(t) == threads'[t] # threads[t]

\* thread t releases the stream handle, or finds it released already
ReleaseStep(t) == threads[t].pc = "release" /\ Moves(t)

\* thread t returns from close()
CloseReturns(t) == threads[t].op = "close" /\ threads[t].pc = "clear" /\ Moves(t)

\* C18: for any number of close calls, one after the other or at the same
\* time, the stream handle is released exactly once, the cache ends empty, no
\* call raises, and a close on a closed session changes nothing.
C18_CloseIdempotent ==
    [][/\ cap = None => cap' = None
       /\ \A t \in Threads :
            /\ ReleaseStep(t) => /\ threads'[t].released = (cap # None)
                                 /\ cap' = None
            /\ CloseReturns(t) => /\ resp'.status = "success"
                                  /\ resp'.released = threads[t].released
                                  /\ frame_cache' = <<>>
                                  /\ cap' = None
            /\ (threads[t].op = "close" /\ Moves(t) /\ cap = None
                    /\ ~threads[t].released)
                   => UNCHANGED <<ref_frame_idx, ref_feature, lap_times,
                                  lap_frame_indices, frame_cache, last_frame_idx,
                                  cap_pos, cap>>]_vars

\* one close has released the handle and returned, and another thread's close
\* that found the handle released is about to return
C18_Witness ==
    /\ resp.op = "close"
    /\ resp.released
    /\ \E t \in Threads :
           /\ t # resp.thread
           /\ threads[t].op = "close"
           /\ threads[t].pc = "clear"
           /\ ~threads[t].released

\* thread t is between the first and the last stream operation of a get_frame
MidDecode(t) == threads[t].pc = "decoding"

\* thread t performs an operation on self.cap
StreamStep(t) == threads[t].pc \in {"read", "decoding", "release"} /\ Moves(t)

\* C19: under any interleaving of concurrent calls, at most one thread at a
\* time operates on the video stream: a stream operation is done by the thread
\* holding the lock, and none begins while another thread is between two
\* stream operations of its get_frame.
C19_StreamExclusive ==
    [][\A t \in Threads :
          StreamStep(t) => /\ video_lock = Some(t)
                           /\ \A u \in Threads \ {t} : ~MidDecode(u)]_vars

\* one thread is in the middle of a decode while another waits for the lock
C19_Witness ==
    \E t, u \in Threads :
        /\ t # u
        /\ MidDecode(t)
        /\ video_lock = Some(t)
        /\ threads[u].pc = "lock"

\* thread t reads self.frame_cache (the membership test or the lookup)
CacheReadStep(t) == threads[t].pc \in {"check", "copy"} /\ Moves(t)

\* C20: cache reads and writes happen inside the critical section of the
\* stream operations: no thread reads the cache while another thread holds the
\* stream lock to insert into the cache or clear it.
C20_CacheInCriticalSection ==
    [][\A t \in Threads :
          CacheReadStep(t) => \A u \in Threads \ {t} : video_lock # Some(u)]_vars

\* the call takes the sequential fast path: a cache miss with
\* frame_idx == self.last_frame_idx + 1, so cap.read() runs without a seek
TakesFastPath ==
    /\ Called("get_frame")
    /\ cap # None
    /\ resp'.arg \notin DOMAIN frame_cache
    /\ resp'.arg = last_frame_idx + 1

\* C23: a get_frame that seeks the stream and returns not-found leaves
\* last_decoded_index at -1, so the sequential fast path is never taken while
\* the decode cursor is not at last_decoded_index + 1.
C23_LastIndexInvalidated ==
    [][/\ (Called("get_frame") /\ resp'.status = "FrameUnavailable")
           => last_frame_idx' = -1
       /\ TakesFastPath => cap_pos = last_frame_idx + 1]_vars

\* C24: every buffer get_frame(i) returns, and every buffer the cache holds
\* under key i, is the content of stream frame i.
C24_BuffersAreTheirFrame ==
    [][Called("get_frame")
        => /\ resp'.returned \in {None, Some(resp'.arg)}
           /\ \A k \in DOMAIN frame_cache' : frame_cache'[k] = k]_vars

\* thread t's record_lap has passed its checks and records the lap it measured
Recording(t) ==
    /\ threads[t].op = "confirm_lap"
    /\ threads[t].pc \in {"rl_times", "rl_indices", "rl_ref", "rl_stats"}

\* two confirm_lap calls for the same frame record a lap from the same reference
DoubleLap ==
    \E t, u \in DOMAIN threads :
        /\ t # u
        /\ Recording(t) /\ Recording(u)
        /\ threads[t].arg = threads[u].arg
        /\ threads[t].ref = threads[u].ref

\* C21: concurrent set_reference, confirm_lap and statistics behave as in
\* some sequential order: two concurrent confirm_lap(f) calls never both
\* record a lap measured from the same reference, and no reader finds the
\* lap-duration list and the lap-frame-index list with different lengths.
C21_SessionSerialised ==
    /\ ~DoubleLap
    /\ resp.status # "IndexError"

\* the requests let past the check of frame_request_count and not yet returned
InProgress ==
    {t \in DOMAIN threads :
        threads[t].pc \in {"inc_load", "inc_store", "serve", "dec_load", "dec_store"}}

\* thread t passes the check of frame_request_count, one way or the other
Checks(t) == threads[t].pc = "admit" /\ threads'[t].pc # "admit"

\* C22: at most 3 frame requests are admitted and in progress at a time, and
\* a request checked while 3 are in progress is rejected at once.
C22_AdmissionCeiling ==
    [][/\ Cardinality(InProgress') <= max_concurrent_frame_requests
       /\ \A t \in DOMAIN threads :
              (Checks(t) /\ Cardinality(InProgress) >= max_concurrent_frame_requests)
                  => /\ threads'[t].pc = "idle"
                     /\ resp'.status = "TooManyRequests"]_vars

\* the frame indices the last search offered
Offered ==
    IF resp.op = "search_next_lap" /\ resp.status = "success"
    THEN {resp.candidates[k].frame_idx : k \in 1..Len(resp.candidates)}
    ELSE {}

\* C25: a candidate returned by search_next_lap and confirmed with no
\* set_reference in between is accepted: confirm_lap never rejects it with
\* LapTooShort.
C25_CandidatesAccepted ==
    [][(Called("confirm_lap") /\ resp'.arg \in Offered)
        => resp'.status # "LapTooShort"]_vars

=============================================================================
